---- MODULE Spec2Model ----
\* Model of android/src/main/cpp/cpp-adapter.cpp: the JNI bootstrap entry
\* point JNI_OnLoad of the AppUpdater Nitro module.
\*
\*   JNIEXPORT jint JNICALL JNI_OnLoad(JavaVM *vm, void *) {
\*     __android_log_print(ANDROID_LOG_INFO, "AppUpdater", "JNI_OnLoad called! ...");
\*     return margelo::nitro::minhnc::appupdater::initialize(vm);
\*   }
\*
\* One activation of JNI_OnLoad is followed statement by statement: the
\* host pushes the frame (HostLoad), the log call runs (LogPrint), the
\* registration routine is called with vm (InitializeCall), it returns a
\* status or throws (InitializeReturns, InitializeThrows), and the frame
\* is left by the return statement (JNI_Return) or, there being no handler
\* in the function, by the exception (Unwind).
EXTENDS Integers, Sequences, FiniteSets

\* ------------------------------------------------------------------ bounds
MaxCalls == 2      \* invocations of JNI_OnLoad the host makes in one run
MaxHandle == 1     \* non-null JavaVM handles are 1..MaxHandle
MaxStatus == 1     \* initialize returns a status in -MaxStatus..MaxStatus

\* ------------------------------------------------------------ value domains
\* JavaVM *vm: the null pointer is 0, every other value is a live handle.
NullHandle == 0
Handles == 0..MaxHandle
\* The int initialize returns; JNI_OnLoad's jint is the same 32-bit int, so
\* the return statement converts nothing.
StatusCodes == (0 - MaxStatus)..MaxStatus
\* The arguments of the one __android_log_print call. handles is the set of
\* JavaVM handles among the variadic arguments: the format string has no
\* conversion and no argument follows it.
LogRecord == [prio |-> "ANDROID_LOG_INFO", tag |-> "AppUpdater", msg |-> "JNI_OnLoad called! Initializing Nitro modules...", handles |-> {}]

VARIABLES
  pc,        \* position of the activation: idle, log, call, init, ret, unwind, escaped
  vm,        \* the parameter vm of the live activation: <<>> (no frame) or <<h>>
  logRes,    \* this activation: outcome of each __android_log_print call (TRUE = written)
  logcat,    \* the diagnostic sink: the records it has accepted
  logArgs,   \* the argument records handed to the sink, accepted or not
  initArgs,  \* this activation: the handle of each call of initialize
  initRes,   \* this activation: <<>> or <<s>>, the status initialize returned
  threw,     \* this activation: initialize threw
  steps,     \* this activation: the collaborator calls made, in order
  statics,   \* objects with static storage duration of the translation unit
  history    \* the finished activations, in order

vars == <<pc, vm, logRes, logcat, logArgs, initArgs, initRes, threw, steps, statics, history>>

\* The record of a finished activation.
Finished(outcome, retval) ==
  [vm |-> vm[1], logRes |-> logRes, initArgs |-> initArgs, initRes |-> initRes, threw |-> threw, steps |-> steps, outcome |-> outcome, ret |-> retval]

\* The frame is gone: the parameter and the activation's bookkeeping with it.
PopFrame ==
  /\ vm' = <<>>
  /\ logRes' = <<>>
  /\ initArgs' = <<>>
  /\ initRes' = <<>>
  /\ threw' = FALSE
  /\ steps' = <<>>

Init ==
  /\ pc = "idle"
  /\ vm = <<>>
  /\ logRes = <<>>
  /\ logcat = <<>>
  /\ logArgs = <<>>
  /\ initArgs = <<>>
  /\ initRes = <<>>
  /\ threw = FALSE
  /\ steps = <<>>
  /\ statics = {}
  /\ history = <<>>

\* ------------------------------------------------------------ JNI_OnLoad
\* Mutant: a null check in front of the body, returning JNI_ERR (-1).
HostLoadNullCheck(h) ==
  /\ pc = "idle"
  /\ Len(history) < MaxCalls
  /\ IF h = NullHandle
       THEN /\ history' = Append(history, [vm |-> h, logRes |-> <<>>, initArgs |-> <<>>, initRes |-> <<>>, threw |-> FALSE, steps |-> <<>>, outcome |-> "returned", ret |-> <<-1>>])
            /\ UNCHANGED <<pc, vm>>
       ELSE /\ pc' = "log"
            /\ vm' = <<h>>
            /\ UNCHANGED history
  /\ UNCHANGED <<logRes, logcat, logArgs, initArgs, initRes, threw, steps, statics>>

\* Mutant: the log statement is missing, the body starts at the return statement.
HostLoadSkipLog(h) ==
  /\ pc = "idle"
  /\ Len(history) < MaxCalls
  /\ pc' = "call"
  /\ vm' = <<h>>
  /\ UNCHANGED <<logRes, logcat, logArgs, initArgs, initRes, threw, steps, statics, history>>

\* Mutant: a static "loaded" flag; a second load returns JNI_ERR (-1) at once.
HostLoadOnce(h) ==
  /\ pc = "idle"
  /\ Len(history) < MaxCalls
  /\ statics' = statics \cup {"loaded"}
  /\ IF "loaded" \in statics
       THEN /\ history' = Append(history, [vm |-> h, logRes |-> <<>>, initArgs |-> <<>>, initRes |-> <<>>, threw |-> FALSE, steps |-> <<>>, outcome |-> "returned", ret |-> <<-1>>])
            /\ UNCHANGED <<pc, vm>>
       ELSE /\ pc' = "log"
            /\ vm' = <<h>>
            /\ UNCHANGED history
  /\ UNCHANGED <<logRes, logcat, logArgs, initArgs, initRes, threw, steps>>

\* The host loads the library and calls JNI_OnLoad(h, reserved): a fresh
\* frame, control at the first statement. The function tests nothing about h
\* and the translation unit has no object that remembers an earlier load.
HostLoad(h) ==
  /\ pc = "idle"
  /\ Len(history) < MaxCalls
  /\ pc' = "log"
  /\ vm' = <<h>>
  /\ UNCHANGED <<logRes, logcat, logArgs, initArgs, initRes, threw, steps, statics, history>>

\* Mutant: a sink that refuses the record ends the load with JNI_ERR (-1).
LogPrintGated(ok) ==
  /\ pc = "log"
  /\ logArgs' = Append(logArgs, LogRecord)
  /\ logcat' = IF ok THEN Append(logcat, LogRecord) ELSE logcat
  /\ IF ok
       THEN /\ logRes' = Append(logRes, ok)
            /\ steps' = Append(steps, "log")
            /\ pc' = "call"
            /\ UNCHANGED <<vm, initArgs, initRes, threw, history>>
       ELSE /\ history' = Append(history, [Finished("returned", <<-1>>) EXCEPT !.logRes = Append(logRes, ok), !.steps = Append(steps, "log")])
            /\ pc' = "idle"
            /\ PopFrame
  /\ UNCHANGED statics

\* Mutant: the log statement is there twice.
LogPrintTwice(ok) ==
  /\ pc = "log"
  /\ logRes' = logRes \o <<ok, ok>>
  /\ logArgs' = logArgs \o <<LogRecord, LogRecord>>
  /\ logcat' = IF ok THEN logcat \o <<LogRecord, LogRecord>> ELSE logcat
  /\ steps' = steps \o <<"log", "log">>
  /\ pc' = "call"
  /\ UNCHANGED <<vm, initArgs, initRes, threw, statics, history>>

\* __android_log_print(ANDROID_LOG_INFO, "AppUpdater", "..."): a C function,
\* it returns; the sink accepts the record (ok) or not, and the int it returns
\* is discarded. Control goes on to the return statement either way.
LogPrint(ok) ==
  /\ pc = "log"
  /\ logRes' = Append(logRes, ok)
  /\ logArgs' = Append(logArgs, LogRecord)
  /\ logcat' = IF ok THEN Append(logcat, LogRecord) ELSE logcat
  /\ steps' = Append(steps, "log")
  /\ pc' = "call"
  /\ UNCHANGED <<vm, initArgs, initRes, threw, statics, history>>

\* Mutant: the handle is kept in a static before it is passed on.
InitializeCallCaching ==
  /\ pc = "call"
  /\ statics' = statics \cup {vm[1]}
  /\ initArgs' = Append(initArgs, vm[1])
  /\ steps' = Append(steps, "initialize")
  /\ pc' = "init"
  /\ UNCHANGED <<vm, logRes, logcat, logArgs, initRes, threw, history>>

\* The call expression initialize(vm) of the return statement: vm is passed
\* as it was received.
InitializeCall ==
  /\ pc = "call"
  /\ initArgs' = Append(initArgs, vm[1])
  /\ steps' = Append(steps, "initialize")
  /\ pc' = "init"
  /\ UNCHANGED <<vm, logRes, logcat, logArgs, initRes, threw, statics, history>>

\* The registration routine (declared in AppUpdaterOnLoad.hpp, defined
\* elsewhere) returns a status code ...
InitializeReturns(s) ==
  /\ pc = "init"
  /\ initRes' = <<s>>
  /\ pc' = "ret"
  /\ UNCHANGED <<vm, logRes, logcat, logArgs, initArgs, threw, steps, statics, history>>

\* ... or signals an unrecoverable condition by throwing.
InitializeThrows ==
  /\ pc = "init"
  /\ threw' = TRUE
  /\ pc' = "unwind"
  /\ UNCHANGED <<vm, logRes, logcat, logArgs, initArgs, initRes, steps, statics, history>>

\* Mutant: every status is reported to the host as success (0).
JNI_ReturnSwallow ==
  /\ pc = "ret"
  /\ history' = Append(history, Finished("returned", <<0>>))
  /\ pc' = "idle"
  /\ PopFrame
  /\ UNCHANGED <<logcat, logArgs, statics>>

\* Mutant: a failure status is followed by one more call of initialize.
JNI_ReturnRetry ==
  /\ pc = "ret"
  /\ IF initRes[1] # 0 /\ Len(initArgs) < 2
       THEN /\ pc' = "call"
            /\ initRes' = <<>>
            /\ UNCHANGED <<vm, logRes, initArgs, threw, steps, history>>
       ELSE /\ history' = Append(history, Finished("returned", initRes))
            /\ pc' = "idle"
            /\ PopFrame
  /\ UNCHANGED <<logcat, logArgs, statics>>

\* Mutant: the function waits instead of returning.
JNI_ReturnBlocks ==
  /\ pc = "ret"
  /\ UNCHANGED vars

\* return initialize(vm): the value initialize returned is the function's
\* value (int to jint, the same type); the frame is popped.
JNI_Return ==
  /\ pc = "ret"
  /\ history' = Append(history, Finished("returned", initRes))
  /\ pc' = "idle"
  /\ PopFrame
  /\ UNCHANGED <<logcat, logArgs, statics>>

\* JNI_OnLoad has no try block: an exception thrown by initialize leaves the
\* function and reaches the host, which gets no status. The run ends there.
Unwind ==
  /\ pc = "unwind"
  /\ history' = Append(history, Finished("escaped", <<>>))
  /\ pc' = "escaped"
  /\ PopFrame
  /\ UNCHANGED <<logcat, logArgs, statics>>

Next ==
  \/ \E h \in Handles : HostLoad(h)
  \/ \E ok \in BOOLEAN : LogPrint(ok)
  \/ InitializeCall
  \/ \E s \in StatusCodes : InitializeReturns(s)
  \/ InitializeThrows
  \/ JNI_Return
  \/ Unwind

Spec == Init /\ [][Next]_vars

\* Once called, JNI_OnLoad runs on the host's thread without interruption:
\* each of its statements is executed when control reaches it. That the
\* registration routine comes back (with a status or an exception) is the
\* proviso under which completion is claimed.
FairSpec ==
  /\ Spec
  /\ WF_vars(\E ok \in BOOLEAN : LogPrint(ok))
  /\ WF_vars(InitializeCall)
  /\ WF_vars((\E s \in StatusCodes : InitializeReturns(s)) \/ InitializeThrows)
  /\ WF_vars(JNI_Return)
  /\ WF_vars(Unwind)

\* ------------------------------------------------------------ properties
Recs == {history[i] : i \in DOMAIN history}
BodySteps == <<"log", "initialize">>
IsPrefix(s, q) == Len(s) <= Len(q) /\ \A k \in DOMAIN s : s[k] = q[k]

\* C1: for a non-null handle, whatever status s initialize returns, the
\* activation returns to the host and the value it returns is exactly s.
PassThrough ==
  /\ \A r \in Recs : (r.vm # NullHandle /\ r.initRes # <<>>) => (r.outcome = "returned" /\ r.ret = r.initRes)
  /\ \A r \in Recs : (r.vm # NullHandle /\ r.outcome = "returned") => (Len(r.ret) = 1 /\ r.ret = r.initRes)

\* C1 witness: a load with a live handle in which initialize returned -1 and
\* another in which it returned 0 have both come back.
PassThroughWitness ==
  /\ \E r \in Recs : r.vm # NullHandle /\ r.initRes = <<-1>> /\ r.outcome = "returned"
  /\ \E r \in Recs : r.vm # NullHandle /\ r.initRes = <<0>> /\ r.outcome = "returned"

\* C2 as stated: with a null handle JNI_OnLoad returns a failure status at
\* once and initialize is never called with that handle.
NullShortCircuit ==
  /\ (vm = <<NullHandle>>) => initArgs = <<>>
  /\ \A r \in Recs : r.vm = NullHandle => (r.initArgs = <<>> /\ r.outcome = "returned" /\ r.ret # <<0>>)

\* C2 amended: with a null handle JNI_OnLoad does what it does with any
\* handle: one diagnostic, one call of initialize with the null handle, and
\* when initialize returns a status, that status is returned.
NullForwarded ==
  /\ (vm = <<NullHandle>> /\ pc \in {"init", "ret", "unwind"}) => (initArgs = <<NullHandle>> /\ Len(logRes) = 1)
  /\ \A r \in Recs : r.vm = NullHandle =>
       /\ Len(r.logRes) = 1
       /\ r.initArgs = <<NullHandle>>
       /\ r.initRes # <<>> => (r.outcome = "returned" /\ r.ret = r.initRes)

\* C2 witness: a load with the null handle came back with success, initialize
\* having been called with the null handle.
NullForwardedWitness ==
  \E r \in Recs : r.vm = NullHandle /\ r.initArgs = <<NullHandle>> /\ r.outcome = "returned" /\ r.ret = <<0>>

\* C3 as stated: no exception reaches the host; when initialize throws,
\* JNI_OnLoad returns normally and the value returned is a failure status.
NoFaultCrossesHost ==
  /\ pc # "escaped"
  /\ \A r \in Recs : r.threw => (r.outcome = "returned" /\ Len(r.ret) = 1 /\ r.ret # <<0>>)

\* C4: in every activation the diagnostic call comes before the call of
\* initialize: initialize is never entered with no diagnostic attempted.
LogBeforeRegistration ==
  /\ \A k \in DOMAIN steps : steps[k] = "initialize" => \E j \in 1..(k - 1) : steps[j] = "log"
  /\ initArgs # <<>> => logRes # <<>>
  /\ \A r \in Recs : \A k \in DOMAIN r.steps : r.steps[k] = "initialize" => \E j \in 1..(k - 1) : r.steps[j] = "log"
  /\ \A r \in Recs : r.initArgs # <<>> => r.logRes # <<>>

\* C4 witness: initialize is running, the diagnostic having been refused by
\* the sink.
LogBeforeRegistrationWitness ==
  pc = "init" /\ steps = BodySteps /\ logRes = <<FALSE>>

\* C5: the sink's outcome gates nothing: a load whose diagnostic the sink
\* refused still calls initialize, returns the status initialize returned,
\* and ends as any load with the same handle and the same behaviour of
\* initialize whose diagnostic was accepted.
SinkNeverGates ==
  /\ (pc \in {"init", "ret", "unwind"}) => Len(initArgs) = 1
  /\ \A r \in Recs : (FALSE \in {r.logRes[k] : k \in DOMAIN r.logRes}) =>
       /\ Len(r.initArgs) = 1
       /\ r.outcome = "returned" => (Len(r.ret) = 1 /\ r.ret = r.initRes)
  /\ \A r, q \in Recs : (r.vm = q.vm /\ r.initRes = q.initRes /\ r.threw = q.threw) => (r.outcome = q.outcome /\ r.ret = q.ret)
  /\ \A r, q \in Recs : (r.vm = q.vm /\ r.outcome = "returned" /\ q.outcome = "returned" /\ r.ret # q.ret) => r.initRes # q.initRes

\* C5 witness: two loads with the same handle in which initialize returned
\* -1, one with the diagnostic refused and one with it accepted.
SinkNeverGatesWitness ==
  \E r, q \in Recs : r.vm = q.vm /\ r.logRes = <<FALSE>> /\ q.logRes = <<TRUE>> /\ r.initRes = <<-1>> /\ q.initRes = <<-1>> /\ r.outcome = "returned" /\ q.outcome = "returned"

\* C6: initialize is called exactly once in an activation, whatever it
\* returns; a failure status is followed by no further call and is the value
\* the same activation returns.
RegistrationOnce ==
  /\ Len(initArgs) <= 1
  /\ pc \in {"init", "ret", "unwind"} => Len(initArgs) = 1
  /\ \A r \in Recs : Len(r.initArgs) = 1
  /\ \A r \in Recs : (r.initRes # <<>> /\ r.initRes # <<0>>) => (r.outcome = "returned" /\ r.ret = r.initRes /\ r.steps = BodySteps)

\* C6 witness: a load in which initialize returned -1 has come back.
RegistrationOnceWitness ==
  \E r \in Recs : r.initRes = <<-1>> /\ r.outcome = "returned" /\ Len(r.initArgs) = 1

\* C7: every activation makes the diagnostic call exactly once, whatever
\* initialize returns; after n finished activations the sink has been handed
\* n records.
DiagnosticOnce ==
  /\ Len(logRes) <= 1
  /\ pc \in {"call", "init", "ret", "unwind"} => Len(logRes) = 1
  /\ \A r \in Recs : Len(r.logRes) = 1
  /\ Len(logArgs) = Len(history) + Len(logRes)
  /\ pc \in {"idle", "escaped"} => Len(logArgs) = Len(history)
  /\ Len(logcat) = Cardinality({i \in DOMAIN history : history[i].logRes = <<TRUE>>}) + (IF logRes = <<TRUE>> THEN 1 ELSE 0)

\* C7 witness: two loads are finished, initialize returned -1 in one of them,
\* and the sink has been handed two records.
DiagnosticOnceWitness ==
  /\ pc = "idle"
  /\ Len(history) = 2
  /\ Len(logArgs) = 2
  /\ \E r \in Recs : r.initRes = <<-1>> /\ r.outcome = "returned"

\* C8: nothing is kept between activations: the translation unit has no
\* static object, every load calls initialize again, and a load's result is
\* decided by what initialize did in that load, whatever came before.
Stateless ==
  /\ statics = {}
  /\ \A i \in DOMAIN history : Len(history[i].initArgs) = 1
  /\ \A i \in DOMAIN history : history[i].initRes # <<>> => (history[i].outcome = "returned" /\ history[i].ret = history[i].initRes)
  /\ \A i, j \in DOMAIN history : (history[i].initRes = history[j].initRes /\ history[i].threw = history[j].threw) => (history[i].outcome = history[j].outcome /\ history[i].ret = history[j].ret)

\* C8 witness: a second load came back with 0 after a first load that came
\* back with -1.
StatelessWitness ==
  /\ Len(history) >= 2
  /\ history[1].outcome = "returned" /\ history[1].ret = <<-1>>
  /\ history[2].outcome = "returned" /\ history[2].ret = <<0>> /\ Len(history[2].initArgs) = 1

\* C9: initialize receives the handle the host passed, unchanged; the handle
\* goes nowhere else: not into a static, not to the sink, and once the
\* activation is over the parameter is gone.
HandleOnlyForwarded ==
  /\ initArgs # <<>> => initArgs = vm
  /\ \A r \in Recs : r.initArgs = <<r.vm>>
  /\ statics = {}
  /\ \A k \in DOMAIN logArgs : logArgs[k].handles = {}
  /\ \A k \in DOMAIN logcat : logcat[k].handles = {}
  /\ pc \in {"idle", "escaped"} => vm = <<>>

\* C9 witness: a load with a live handle came back, initialize having been
\* called with that handle and the sink having accepted the diagnostic.
HandleOnlyForwardedWitness ==
  /\ pc = "idle"
  /\ Len(logcat) >= 1
  /\ \E r \in Recs : r.vm # NullHandle /\ r.initArgs = <<r.vm>> /\ r.outcome = "returned"

\* What the activation has done so far is a prefix of: one diagnostic call,
\* one call of initialize; a finished activation has done exactly that.
OnlyBodySteps ==
  /\ IsPrefix(steps, BodySteps)
  /\ \A r \in Recs : r.steps = BodySteps

\* The n+1st load, once entered, ends; it ends with a status returned to the
\* host unless initialize threw.
Completes(n) ==
  (pc = "log" /\ Len(history) = n) ~> (Len(history) > n /\ (history[n + 1].threw \/ (history[n + 1].outcome = "returned" /\ Len(history[n + 1].ret) = 1)))

\* C10: every activation runs to completion: when initialize comes back, the
\* activation ends, with a status for the host when initialize returned one;
\* between entry and return it makes the diagnostic call and the one call of
\* initialize and nothing else.
RunsToCompletion ==
  /\ \A n \in 0..(MaxCalls - 1) : Completes(n)
  /\ []OnlyBodySteps

\* C10 witness: the last load the host makes has come back with a status.
RunsToCompletionWitness ==
  /\ pc = "idle"
  /\ Len(history) = MaxCalls
  /\ history[MaxCalls].outcome = "returned"
  /\ history[MaxCalls].steps = BodySteps

====
